---- MODULE Spec2Model ----
(***************************************************************************)
(* Word Cloud Generator (src/app.py): a Streamlit script.  Every widget    *)
(* change and every click of the generate button re-runs the whole script  *)
(* from the top ("interaction").  Widget values are kept by the host       *)
(* between runs; every other name of the script is rebuilt by each run.    *)
(*                                                                         *)
(* Strings are sequences of one-character strings, so that strip, split    *)
(* and lower are computed as Python computes them.                         *)
(***************************************************************************)
EXTENDS Integers, Sequences, FiniteSets, TLC

\* ------------------------------------------------------------- bounds
\* longest text and longest extra-stopwords string typed by the user, besides
\* the longer examples below
MaxTextLen == 1

MaxExtraLen == 2

\* ------------------------------------------------------------- characters
Whitespace == {" ", "\t", "\n"}

UpperCase == <<"A", "B", "C", "D", "E", "F", "G", "H", "I", "J", "K", "L", "M",
               "N", "O", "P", "Q", "R", "S", "T", "U", "V", "W", "X", "Y", "Z">>

LowerCase == <<"a", "b", "c", "d", "e", "f", "g", "h", "i", "j", "k", "l", "m",
               "n", "o", "p", "q", "r", "s", "t", "u", "v", "w", "x", "y", "z">>

Letters == {UpperCase[i] : i \in DOMAIN UpperCase} \cup {LowerCase[i] : i \in DOMAIN LowerCase}

None == [type |-> "NoneType"]

\* ------------------------------------------------------------- str methods
\* str.lower() of one character
LowerChar(c) ==
    IF \E i \in DOMAIN UpperCase : UpperCase[i] = c
    THEN LowerCase[CHOOSE i \in DOMAIN UpperCase : UpperCase[i] = c]
    ELSE c

\* str.lower()
lower(s) == [i \in 1..Len(s) |-> LowerChar(s[i])]

RECURSIVE LStrip(_)
LStrip(s) ==
    IF s = <<>> THEN s
    ELSE IF Head(s) \in Whitespace THEN LStrip(Tail(s)) ELSE s

RECURSIVE RStrip(_)
RStrip(s) ==
    IF s = <<>> THEN s
    ELSE IF s[Len(s)] \in Whitespace THEN RStrip(SubSeq(s, 1, Len(s) - 1)) ELSE s

\* str.strip()
strip(s) == RStrip(LStrip(s))

\* str.split(','): the pieces between the commas, in order (always at least one)
RECURSIVE split(_)
split(s) ==
    IF \A i \in 1..Len(s) : s[i] # ","
    THEN <<s>>
    ELSE LET i == CHOOSE k \in 1..Len(s) : s[k] = "," /\ \A m \in 1..(k - 1) : s[m] # ","
         IN  <<SubSeq(s, 1, i - 1)>> \o split(SubSeq(s, i + 1, Len(s)))

\* sub in s
Contains(sub, s) ==
    \E i \in 1..(Len(s) - Len(sub) + 1) : SubSeq(s, i, i + Len(sub) - 1) = sub

\* truth value of a Python str
Truthy(s) == s # <<>>

\* truth value of a name holding None or an object that defines neither
\* __bool__ nor __len__ (a WordCloud), or None or the bytes of a written PNG
ObjectTruthy(x) == x # None

\* ------------------------------------------------------------- widgets
\* st.slider("Maximum Words:", min_value=10, max_value=500, value=100, step=10)
SliderMin == 10
SliderMax == 500
SliderDefault == 100
SliderStep == 10

SliderAccepts_unbounded(v) == v >= 0

\* the values the slider can be set to
SliderAccepts(v) ==
    /\ v >= SliderMin
    /\ v <= SliderMax
    /\ (v - SliderMin) % SliderStep = 0

\* values a user tries to give the slider: the boundaries and their neighbours
MaxWordsRequests == {9, 10, 15, 500, 501}

DefaultBackground == "#FFFFFF"
BackgroundColors == {"#FFFFFF", "#000000"}

DefaultColormap == "viridis"
colormap_options == {"viridis", "plasma"}

TextAlphabet == {" ", "B"}
ExtraAlphabet == {",", " ", "B"}

Strings(alphabet, n) == UNION {[1..k -> alphabet] : k \in 0..n}

StopwordsOnlyText == <<"t", "h", "e", " ", "a", " ", "a", "n", " ", "t", "h", "e", " ", "a">>
WhitespaceOnlyText == <<" ", "\n", "\t">>
PaddedText == <<"\n", "B", "b", " ">>
ExampleExtra == <<"t", "h", "e", ",", " ", "A", "N", "D", " ", ",", ",", " ", "f", "o", "o">>

TextInputs == Strings(TextAlphabet, MaxTextLen) \cup {StopwordsOnlyText, WhitespaceOnlyText, PaddedText}
ExtraInputs == Strings(ExtraAlphabet, MaxExtraLen) \cup {ExampleExtra}

\* ------------------------------------------------------------- wordcloud library
\* from wordcloud import STOPWORDS: the library's baseline (a part of it)
BaselineStopwords == {<<"a">>, <<"a", "n">>, <<"a", "n", "d">>, <<"t", "h", "e">>}

\* the words the layout engine finds in a text: the maximal runs of letters
Tokens(s) ==
    {SubSeq(s, i, j) : <<i, j>> \in
        {p \in (1..Len(s)) \X (1..Len(s)) :
            /\ p[1] <= p[2]
            /\ \A k \in p[1]..p[2] : s[k] \in Letters
            /\ (p[1] = 1 \/ s[p[1] - 1] \notin Letters)
            /\ (p[2] = Len(s) \/ s[p[2] + 1] \notin Letters)}}

\* the words left after the engine's stopword filter
EligibleWords(text, stopwords) == {w \in Tokens(text) : lower(w) \notin stopwords}

\* messages of the exceptions the engine or what it calls may raise
MessageText ==
    [need_one_word |-> <<"W", "e", " ", "n", "e", "e", "d", " ", "a", "t", " ", "l", "e", "a", "s", "t", " ", "1", " ", "w", "o", "r", "d", " ", "t", "o", " ", "p", "l", "o", "t", " ", "a", " ", "w", "o", "r", "d", " ", "c", "l", "o", "u", "d", ",", " ", "g", "o", "t", " ", "0", ".">>,
     empty_vocabulary |-> <<"E", "m", "p", "t", "y", " ", "v", "o", "c", "a", "b", "u", "l", "a", "r", "y">>]

EngineMessages == DOMAIN MessageText

ExceptionClasses == {"ValueError", "OSError"}

\* what one call of wc.generate(text) may do: return, or raise cls(msg)
EngineChoices ==
    {[kind |-> "return"]} \cup
    {[kind |-> "raise", cls |-> c, msg |-> m] : c \in ExceptionClasses, m \in EngineMessages}

\* wc.generate(text): with no eligible word the engine cannot lay anything out
\* and raises a ValueError; otherwise it returns or fails in some other way
EngineMayAnswer(text, stopwords, choice) ==
    EligibleWords(text, stopwords) = {} =>
        (choice.kind = "raise" /\ choice.cls = "ValueError")

\* ------------------------------------------------------------- state
VARIABLES
    user_text,               \* st.text_area value
    max_words,               \* st.slider value
    background_color,        \* st.color_picker value
    selected_colormap,       \* st.selectbox value
    custom_stopwords_input,  \* st.text_input value
    STOPWORDS,               \* the library's module-level baseline set
    button,                  \* what st.button returned in the last run
    warnings,                \* st.warning boxes shown by the last run
    error,                   \* exception that ended the last run, or None
    image_shown,             \* st.pyplot(fig) was reached in the last run
    wordcloud_image_bytes,   \* the script's name, at the end of the last run
    download,                \* the st.download_button of the last run, or None
    engine_calls,            \* calls of the layout engine made by the last run
    engine_raised,           \* what wc.generate raised in the last run, or None
    downloaded_before        \* the run before the last one offered a download

widgets == <<user_text, max_words, background_color, selected_colormap, custom_stopwords_input>>

outputs == <<button, warnings, error, image_shown, wordcloud_image_bytes, download,
             engine_calls, engine_raised, downloaded_before>>

vars == <<widgets, STOPWORDS, outputs>>

\* ------------------------------------------------------------- generate_wordcloud
stopwords_set_object_alias == "STOPWORDS"

\* stopwords_set = set(STOPWORDS): the local name is bound to a new set object
stopwords_set_object == "stopwords_set"

custom_stopwords_list_unfiltered(custom_stopwords) ==
    {lower(strip(split(custom_stopwords)[i])) : i \in DOMAIN split(custom_stopwords)}

\* [word.strip().lower() for word in custom_stopwords.split(',') if word.strip()]
custom_stopwords_list(custom_stopwords) ==
    {lower(strip(split(custom_stopwords)[i])) :
        i \in {k \in DOMAIN split(custom_stopwords) : Truthy(strip(split(custom_stopwords)[k]))}}

\* the messages e with: "empty" in str(e).lower()
EmptyMessages ==
    {m \in EngineMessages : Contains(<<"e", "m", "p", "t", "y">>, lower(MessageText[m]))}

EmptyResultWarning == "no words to display: try different text or fewer stopwords"
EmptyInputWarning == "please enter some text"

\* the body of generate_wordcloud: heap maps the set objects to their contents,
\* choice is what wc.generate(text) does in this call
generate_wordcloud(text, mw, bg, colormap, custom_stopwords, mask_image_array, contour_width, contour_color, use_contour, heap, choice) ==
    LET ref == stopwords_set_object
        heap1 == [heap EXCEPT ![ref] = heap["STOPWORDS"]]
        heap2 == IF Truthy(custom_stopwords)
                 THEN [heap1 EXCEPT ![ref] = @ \cup custom_stopwords_list(custom_stopwords)]
                 ELSE heap1
        wc == [text |-> text,
               background_color |-> bg,
               stopwords |-> heap2[ref],
               max_words |-> mw,
               mask |-> mask_image_array,
               contour_width |-> IF use_contour /\ mask_image_array # None THEN contour_width ELSE 0,
               contour_color |-> IF use_contour /\ mask_image_array # None THEN contour_color ELSE "black",
               colormap |-> colormap,
               width |-> IF mask_image_array = None THEN 1200 ELSE 0,
               height |-> IF mask_image_array = None THEN 600 ELSE 0,
               min_font_size |-> 10]
        base == [call |-> wc, STOPWORDS |-> heap2["STOPWORDS"],
                 possible |-> EngineMayAnswer(text, heap2[ref], choice),
                 raised |-> IF choice.kind = "raise"
                            THEN [cls |-> choice.cls, msg |-> choice.msg] ELSE None]
    IN  IF choice.kind = "return"
        THEN base @@ [outcome |-> "return", value |-> wc, warnings |-> {}]
        ELSE IF choice.cls = "ValueError" /\ choice.msg \in EmptyMessages
        THEN base @@ [outcome |-> "return", value |-> None, warnings |-> {EmptyResultWarning}]
        ELSE base @@ [outcome |-> "raise", value |-> [cls |-> choice.cls, msg |-> choice.msg], warnings |-> {}]

\* ------------------------------------------------------------- the script
InitialImageBytes_kept(previous) == previous

\* wordcloud_image_bytes = None, at the top of every run
InitialImageBytes(previous) == None

IfCond_nostrip(text) == Truthy(text)

\* if user_text and user_text.strip():
IfCond(text) == Truthy(text) /\ Truthy(strip(text))

ElifCond_nostrip(text) == ~Truthy(text)

\* elif not user_text or not user_text.strip():
ElifCond(text) == ~Truthy(text) \/ ~Truthy(strip(text))

ObjectCond_always(wordcloud_object) == TRUE

\* if wordcloud_object:
ObjectCond(wordcloud_object) == ObjectTruthy(wordcloud_object)

\* fig.savefig(img_byte_arr, format='PNG', bbox_inches='tight', pad_inches=0.1, dpi=300)
savefig(wordcloud_object) == [format |-> "PNG", dpi |-> 300, image |-> wordcloud_object]

download_button_jpeg(data) ==
    [data |-> data, file_name |-> "my_word_cloud.jpg", mime |-> "image/jpeg"]

\* st.download_button(..., data=..., file_name="my_word_cloud.png", mime="image/png")
download_button(data) ==
    [data |-> data, file_name |-> "my_word_cloud.png", mime |-> "image/png"]

\* the download section at the end of the script
DownloadSection(bytes) == IF ObjectTruthy(bytes) THEN download_button(bytes) ELSE None

\* One run of the script with the given widget values; clicked is what
\* st.button returns, choice what the layout engine does if it is called.
ScriptRun(text, mw, bg, colormap, extra, clicked, choice, baseline, previous) ==
    LET bytes0 == InitialImageBytes(previous)
        mask_array == None
        use_contour == FALSE
        contour_width == 0
        contour_color == "black"
        g == generate_wordcloud(text, mw, bg, colormap, extra, mask_array,
                                contour_width, contour_color, use_contour,
                                [STOPWORDS |-> baseline, stopwords_set |-> {}], choice)
        idle == [possible |-> TRUE, STOPWORDS |-> baseline, engine_calls |-> <<>>,
                 engine_raised |-> None,
                 warnings |-> {}, error |-> None, image_shown |-> FALSE,
                 wordcloud_image_bytes |-> bytes0, download |-> DownloadSection(bytes0)]
    IN  IF ~clicked THEN idle
        ELSE IF IfCond(text)
        THEN LET called == [idle EXCEPT !.possible = g.possible,
                                        !.STOPWORDS = g.STOPWORDS,
                                        !.engine_calls = <<g.call>>,
                                        !.engine_raised = g.raised,
                                        !.warnings = g.warnings]
             IN  IF g.outcome = "raise"
                 THEN [called EXCEPT !.error = g.value, !.download = None]
                 ELSE IF ObjectCond(g.value)
                 THEN [called EXCEPT !.image_shown = TRUE,
                                     !.wordcloud_image_bytes = savefig(g.value),
                                     !.download = DownloadSection(savefig(g.value))]
                 ELSE called
        ELSE IF ElifCond(text)
        THEN [idle EXCEPT !.warnings = {EmptyInputWarning}]
        ELSE idle

\* the host runs the script and shows what it produced
Rerun(clicked, choice) ==
    \E r \in {ScriptRun(user_text', max_words', background_color', selected_colormap',
                         custom_stopwords_input', clicked, choice, STOPWORDS,
                         wordcloud_image_bytes)} :
        /\ r.possible
        /\ button' = clicked
        /\ STOPWORDS' = r.STOPWORDS
        /\ engine_calls' = r.engine_calls
        /\ engine_raised' = r.engine_raised
        /\ downloaded_before' = (download # None)
        /\ warnings' = r.warnings
        /\ error' = r.error
        /\ image_shown' = r.image_shown
        /\ wordcloud_image_bytes' = r.wordcloud_image_bytes
        /\ download' = r.download

NoChoice == [kind |-> "return"]

Init ==
    /\ user_text = <<>>
    /\ max_words = SliderDefault
    /\ background_color = DefaultBackground
    /\ selected_colormap = DefaultColormap
    /\ custom_stopwords_input = <<>>
    /\ STOPWORDS = BaselineStopwords
    /\ button = FALSE
    /\ warnings = {}
    /\ error = None
    /\ image_shown = FALSE
    /\ wordcloud_image_bytes = None
    /\ download = None
    /\ engine_calls = <<>>
    /\ engine_raised = None
    /\ downloaded_before = FALSE

\* ------------------------------------------------------------- interactions
ChangeText(t) ==
    /\ t # user_text
    /\ user_text' = t
    /\ UNCHANGED <<max_words, background_color, selected_colormap, custom_stopwords_input>>
    /\ Rerun(FALSE, NoChoice)

ChangeMaxWords(v) ==
    /\ SliderAccepts(v)
    /\ v # max_words
    /\ max_words' = v
    /\ UNCHANGED <<user_text, background_color, selected_colormap, custom_stopwords_input>>
    /\ Rerun(FALSE, NoChoice)

ChangeBackground(c) ==
    /\ c # background_color
    /\ background_color' = c
    /\ UNCHANGED <<user_text, max_words, selected_colormap, custom_stopwords_input>>
    /\ Rerun(FALSE, NoChoice)

ChangeColormap(c) ==
    /\ c # selected_colormap
    /\ selected_colormap' = c
    /\ UNCHANGED <<user_text, max_words, background_color, custom_stopwords_input>>
    /\ Rerun(FALSE, NoChoice)

ChangeStopwords(s) ==
    /\ s # custom_stopwords_input
    /\ custom_stopwords_input' = s
    /\ UNCHANGED <<user_text, max_words, background_color, selected_colormap>>
    /\ Rerun(FALSE, NoChoice)

ClickGenerate(choice) ==
    /\ UNCHANGED widgets
    /\ Rerun(TRUE, choice)

Next ==
    \/ \E t \in TextInputs : ChangeText(t)
    \/ \E v \in MaxWordsRequests : ChangeMaxWords(v)
    \/ \E c \in BackgroundColors : ChangeBackground(c)
    \/ \E c \in colormap_options : ChangeColormap(c)
    \/ \E s \in ExtraInputs : ChangeStopwords(s)
    \/ \E choice \in EngineChoices : ClickGenerate(choice)

Spec == Init /\ [][Next]_vars

\* ------------------------------------------------------------- properties
\* a text that is empty or made of whitespace only
IsBlank(text) == \A i \in 1..Len(text) : text[i] \in Whitespace

EngineInvoked == engine_calls # <<>>

\* the comma-free stretches of e between two commas or the ends of e, as
\* <<first, last>> positions (last = first - 1 for an empty stretch)
Segments(e) ==
    {p \in (1..(Len(e) + 1)) \X (0..Len(e)) :
        /\ p[1] <= p[2] + 1
        /\ \A k \in p[1]..p[2] : e[k] # ","
        /\ (p[1] = 1 \/ e[p[1] - 1] = ",")
        /\ (p[2] = Len(e) \/ e[p[2] + 1] = ",")}

\* the stretches of e that start and end with a non-whitespace character and
\* fill a segment of e up to whitespace on both sides
TrimmedPieces(e) ==
    {q \in (1..Len(e)) \X (1..Len(e)) :
        /\ q[1] <= q[2]
        /\ e[q[1]] \notin Whitespace
        /\ e[q[2]] \notin Whitespace
        /\ \E p \in Segments(e) :
            /\ p[1] <= q[1]
            /\ q[2] <= p[2]
            /\ \A k \in p[1]..(q[1] - 1) : e[k] \in Whitespace
            /\ \A k \in (q[2] + 1)..p[2] : e[k] \in Whitespace}

FoldCase(c) ==
    IF \E n \in 1..26 : UpperCase[n] = c
    THEN LowerCase[CHOOSE n \in 1..26 : UpperCase[n] = c]
    ELSE c

\* the words an extra-stopwords string adds to the baseline
AddedStopwords(e) ==
    {[k \in 1..(q[2] - q[1] + 1) |-> FoldCase(e[q[1] + k - 1])] : q \in TrimmedPieces(e)}

HasUpperCase(w) == \E i \in 1..Len(w) : \E n \in 1..26 : w[i] = UpperCase[n]

\* C1: a click with an empty or whitespace-only text shows the "please enter
\* some text" warning, never calls the layout engine, renders no image and
\* offers no download.
C1_BlankClickOnlyWarns ==
    (button /\ IsBlank(user_text)) =>
        /\ warnings = {EmptyInputWarning}
        /\ ~EngineInvoked
        /\ error = None
        /\ ~image_shown
        /\ download = None

C1_Witness ==
    /\ button
    /\ user_text = WhitespaceOnlyText
    /\ EmptyInputWarning \in warnings

C3_NoEligibleWordsIsSoftWarning ==
    (/\ button
     /\ ~IsBlank(user_text)
     /\ EngineInvoked
     /\ EligibleWords(user_text, engine_calls[1].stopwords) = {}) =>
        /\ EmptyResultWarning \in warnings
        /\ error = None
        /\ ~image_shown
        /\ download = None

C5_StopwordSetBuilt ==
    EngineInvoked =>
        /\ engine_calls[1].stopwords = BaselineStopwords \cup AddedStopwords(custom_stopwords_input)
        /\ \A w \in engine_calls[1].stopwords \ BaselineStopwords : w # <<>> /\ ~HasUpperCase(w)
        /\ <<>> \notin engine_calls[1].stopwords
        /\ custom_stopwords_input = ExampleExtra =>
              engine_calls[1].stopwords =
                  BaselineStopwords \cup {<<"t", "h", "e">>, <<"a", "n", "d">>, <<"f", "o", "o">>}
        /\ custom_stopwords_input = <<>> => engine_calls[1].stopwords = BaselineStopwords

C5_Witness ==
    /\ EngineInvoked
    /\ custom_stopwords_input = ExampleExtra
    /\ <<"f", "o", "o">> \in engine_calls[1].stopwords

\* C6: every call of the layout engine gets max_words within [10, 500]; the
\* slider never holds 9 or 501, and 10 and 500 are values it can hold.
C6_MaxWordsInRange ==
    /\ max_words >= 10
    /\ max_words <= 500
    /\ \A i \in 1..Len(engine_calls) :
          engine_calls[i].max_words >= 10 /\ engine_calls[i].max_words <= 500

C6_Witness ==
    /\ EngineInvoked
    /\ engine_calls[1].max_words = 500

C8_BaselineNeverMutated ==
    /\ STOPWORDS = BaselineStopwords
    /\ \A i \in 1..Len(engine_calls) :
          \A w \in engine_calls[i].stopwords :
              w \in BaselineStopwords \/ w \in AddedStopwords(custom_stopwords_input)

C8_Witness ==
    /\ EngineInvoked
    /\ engine_calls[1].stopwords # BaselineStopwords
    /\ STOPWORDS = BaselineStopwords

\* C9: whenever a download is offered its file name is "my_word_cloud.png" and
\* its mime type "image/png", whatever the widget values.
C9_DownloadNameAndMime ==
    download # None =>
        /\ download.file_name = "my_word_cloud.png"
        /\ download.mime = "image/png"

C9_Witness ==
    /\ download # None
    /\ background_color # DefaultBackground
    /\ selected_colormap # DefaultColormap
    /\ max_words # SliderDefault
    /\ custom_stopwords_input # <<>>

OutcomeEmptyInput == EmptyInputWarning \in warnings
OutcomeEmptyResult == EmptyResultWarning \in warnings
OutcomeError == error # None
OutcomeRendered == image_shown /\ download # None

\* C10: a click ends in exactly one of: empty-input warning, empty-result
\* warning, propagated error, image with download; the engine is called at
\* most once; the two warnings never show together; the click either shows
\* the empty-input warning or attempts a generation, never neither nor both.
C10_ExactlyOneOutcome ==
    button =>
        /\ Cardinality({o \in {<<1, OutcomeEmptyInput>>, <<2, OutcomeEmptyResult>>,
                               <<3, OutcomeError>>, <<4, OutcomeRendered>>} : o[2]}) = 1
        /\ Len(engine_calls) <= 1
        /\ ~(OutcomeEmptyInput /\ OutcomeEmptyResult)
        /\ OutcomeEmptyInput <=> ~EngineInvoked
        /\ image_shown <=> download # None

C10_Witness ==
    /\ button
    /\ OutcomeEmptyResult
    /\ ~OutcomeError

====
